---- MODULE Spec2Model ----
(***************************************************************************)
(* A model of excel_data_cleaner.py: setup_logger and the cleaning         *)
(* pipeline improve_excel_data_quality, stage by stage.                    *)
(*                                                                         *)
(* Strings are sequences of one-character strings, so that strip, lower,   *)
(* replace, title, substring tests and the e-mail pattern are computed     *)
(* character by character.  Numbers are exact rationals <<p, q>> in lowest *)
(* terms with q > 0 (median, quantile and mean produce fractions).         *)
(* A cell is a record: k is "str", "num", "dt", "bool" or "na", and the    *)
(* field of that kind (s, n, d, b) holds the value.                        *)
(* A column is [name, dtype, vals]; a table is a sequence of columns.      *)
(*                                                                         *)
(* Series.fillna(..., inplace=True) on df[column] is modelled as writing   *)
(* through to the frame, which is what the log lines of the code report.   *)
(***************************************************************************)
EXTENDS Integers, Sequences, FiniteSets, TLC

VARIABLES
  pc,                 \* where the call stands in improve_excel_data_quality
  file,               \* the sheet at file_path
  df,                 \* df, then df_deduped (lines 70, 89)
  before,             \* the frame as the stage last run found it
  original_row_count, \* line 77
  dupes_removed,      \* line 90
  handlers,           \* the handlers of logging.getLogger('data_quality')
  run,                \* the number of calls made in this process
  outfile,            \* the sheet this call wrote at output_path, if any
  report,             \* quality_report (lines 193-199)
  ret                 \* what the call returned: "None", "table", "exception"

vars == <<pc, file, df, before, original_row_count, dupes_removed,
          handlers, run, outfile, report, ret>>

(***************************************************************************)
(* Bounds of the model.                                                    *)
(***************************************************************************)
MaxRows == 2
MaxNumRows == 5
MaxRuns == 2

(***************************************************************************)
(* Characters and strings.                                                 *)
(***************************************************************************)
UpperChars == <<"A","B","C","D","E","F","G","H","I","J","K","L","M",
                "N","O","P","Q","R","S","T","U","V","W","X","Y","Z">>
LowerChars == <<"a","b","c","d","e","f","g","h","i","j","k","l","m",
                "n","o","p","q","r","s","t","u","v","w","x","y","z">>
DigitChars == <<"0","1","2","3","4","5","6","7","8","9">>

\* The characters of the model in code-point order.
CodePoints == <<" ", "%", "+", "-", ".", "/">> \o DigitChars \o <<"@">>
              \o UpperChars \o <<"_">> \o LowerChars

Range(s) == {s[i] : i \in 1..Len(s)}

Ord(c) == CHOOSE i \in 1..Len(CodePoints) : CodePoints[i] = c

IsUpper(c) == c \in Range(UpperChars)
IsLower(c) == c \in Range(LowerChars)
IsAlpha(c) == IsUpper(c) \/ IsLower(c)
IsDigit(c) == c \in Range(DigitChars)
IsSpace(c) == c = " "

LowerChar(c) == IF IsUpper(c)
                THEN LowerChars[CHOOSE i \in 1..Len(UpperChars) : UpperChars[i] = c]
                ELSE c
UpperChar(c) == IF IsLower(c)
                THEN UpperChars[CHOOSE i \in 1..Len(LowerChars) : LowerChars[i] = c]
                ELSE c

\* str.lower()
StrLower(s) == [i \in 1..Len(s) |-> LowerChar(s[i])]

\* str.replace(old, new) for one-character old and new
StrReplace(s, old, new) == [i \in 1..Len(s) |-> IF s[i] = old THEN new ELSE s[i]]

\* str.strip(): drops leading and trailing whitespace
StrStrip(s) ==
  IF \A i \in 1..Len(s) : IsSpace(s[i]) THEN <<>>
  ELSE LET first == CHOOSE i \in 1..Len(s) :
                      /\ ~IsSpace(s[i])
                      /\ \A j \in 1..(i-1) : IsSpace(s[j])
           last  == CHOOSE i \in 1..Len(s) :
                      /\ ~IsSpace(s[i])
                      /\ \A j \in (i+1)..Len(s) : IsSpace(s[j])
       IN  SubSeq(s, first, last)

\* str.title(): a letter after a non-letter is uppercased, any other letter
\* is lowercased.
StrTitle(s) ==
  [i \in 1..Len(s) |->
     IF i = 1 \/ ~IsAlpha(s[i-1]) THEN UpperChar(s[i]) ELSE LowerChar(s[i])]

\* sub in s
Contains(s, sub) ==
  \E i \in 0..(Len(s) - Len(sub)) : SubSeq(s, i+1, i+Len(sub)) = sub

\* s < t in Python's string order
RECURSIVE StrLess(_, _)
StrLess(s, t) ==
  IF t = <<>> THEN FALSE
  ELSE IF s = <<>> THEN TRUE
  ELSE IF s[1] # t[1] THEN Ord(s[1]) < Ord(t[1])
  ELSE StrLess(Tail(s), Tail(t))

(***************************************************************************)
(* Exact arithmetic on rationals <<p, q>>.                                 *)
(***************************************************************************)
Abs(n) == IF n < 0 THEN -n ELSE n

RECURSIVE GCD(_, _)
GCD(a, b) == IF b = 0 THEN a ELSE GCD(b, a % b)

Rat(p, q) == LET g == GCD(Abs(p), q) IN <<p \div g, q \div g>>

RAdd(a, b) == Rat(a[1] * b[2] + b[1] * a[2], a[2] * b[2])
RSub(a, b) == Rat(a[1] * b[2] - b[1] * a[2], a[2] * b[2])
RMul(a, b) == Rat(a[1] * b[1], a[2] * b[2])
RLess(a, b) == a[1] * b[2] < b[1] * a[2]
RLeq(a, b) == a[1] * b[2] <= b[1] * a[2]

(***************************************************************************)
(* Cells.                                                                  *)
(***************************************************************************)
NA == [k |-> "na", s |-> <<>>, n |-> <<0, 1>>, d |-> <<>>, b |-> FALSE]
StrCell(s) == [NA EXCEPT !.k = "str", !.s = s]
NumCell(r) == [NA EXCEPT !.k = "num", !.n = r]
IntCell(n) == NumCell(<<n, 1>>)
DtCell(y, m, d) == [NA EXCEPT !.k = "dt", !.d = <<y, m, d>>]
BoolCell(b) == [NA EXCEPT !.k = "bool", !.b = b]

\* Series.isna() / Series.notna() on one cell
IsNA(c) == c.k = "na"
NotNA(c) == c.k # "na"

\* The non-missing cells of a column, in row order.
NonMissing(vals) == SelectSeq(vals, NotNA)

HasMissing(vals) == \E i \in 1..Len(vals) : IsNA(vals[i])

\* astype(str) on one cell: a missing value becomes the text "nan", a
\* boolean its Python name.  Numeric and datetime cells are never coerced
\* to text in the tables of this model.
AsStr(c) ==
  CASE c.k = "str"  -> c.s
    [] c.k = "na"   -> <<"n","a","n">>
    [] c.k = "bool" -> IF c.b THEN <<"T","r","u","e">>
                                 ELSE <<"F","a","l","s","e">>

(***************************************************************************)
(* The e-mail pattern of the validation stage:                             *)
(*   ^[a-zA-Z0-9._%+-]+@[a-zA-Z0-9.-]+\.[a-zA-Z]{2,}$                      *)
(***************************************************************************)
MinTldLen == 2

LocalChar(c) == IsAlpha(c) \/ IsDigit(c) \/ c \in {".", "_", "%", "+", "-"}
DomainChar(c) == IsAlpha(c) \/ IsDigit(c) \/ c \in {".", "-"}

\* str.match(email_pattern) on one string
MatchEmail(s) ==
  \E at \in 1..Len(s) : \E dot \in 1..Len(s) :
     /\ s[at] = "@"
     /\ s[dot] = "."
     /\ at >= 2
     /\ dot >= at + 2
     /\ Len(s) - dot >= MinTldLen
     /\ \A i \in 1..(at-1) : LocalChar(s[i])
     /\ \A i \in (at+1)..(dot-1) : DomainChar(s[i])
     /\ \A i \in (dot+1)..Len(s) : IsAlpha(s[i])

(***************************************************************************)
(* pd.to_datetime(..., errors='coerce') on one cell.                       *)
(***************************************************************************)
DigitVal(c) == (CHOOSE i \in 1..Len(DigitChars) : DigitChars[i] = c) - 1

\* A text of the form YYYY-MM-DD parses to that date; the other texts of
\* the model ("x", "n/a") do not parse and are coerced to missing.
ParseDate(s) ==
  IF /\ Len(s) = 10
     /\ s[5] = "-" /\ s[8] = "-"
     /\ \A i \in {1,2,3,4,6,7,9,10} : IsDigit(s[i])
  THEN LET y == DigitVal(s[1]) * 1000 + DigitVal(s[2]) * 100
                + DigitVal(s[3]) * 10 + DigitVal(s[4])
           m == DigitVal(s[6]) * 10 + DigitVal(s[7])
           d == DigitVal(s[9]) * 10 + DigitVal(s[10])
       IN  IF m \in 1..12 /\ d \in 1..31
           THEN DtCell(y, m, d) ELSE NA
  ELSE NA

\* A number is read as nanoseconds since the epoch (fractions truncated);
\* the fourth component keeps the nanoseconds.
ToDatetimeCell(c) ==
  CASE c.k = "dt"  -> c
    [] c.k = "na"  -> NA
    [] c.k = "str" -> ParseDate(c.s)
    [] c.k = "num" -> [NA EXCEPT !.k = "dt", !.d = <<1970, 1, 1, c.n[1] \div c.n[2]>>]

(***************************************************************************)
(* Tables.                                                                 *)
(***************************************************************************)
NumRows(t) == IF Len(t) = 0 THEN 0 ELSE Len(t[1].vals)

Row(t, i) == [c \in 1..Len(t) |-> t[c].vals[i]]

Rows(t) == [i \in 1..NumRows(t) |-> Row(t, i)]

\* The dtype pandas infers for a column read from the sheet.
InferDtype(vals) ==
  LET present == NonMissing(vals)
      kinds   == {present[i].k : i \in 1..Len(present)}
  IN  IF Len(vals) = 0 THEN "object"
      ELSE IF kinds = {} THEN "float64"
      ELSE IF kinds = {"num"}
           THEN IF ~HasMissing(vals) /\ \A i \in 1..Len(vals) : vals[i].n[2] = 1
                THEN "int64" ELSE "float64"
      ELSE IF kinds = {"dt"} THEN "datetime64"
      ELSE IF kinds = {"bool"} /\ ~HasMissing(vals) THEN "bool"
      ELSE "object"

\* pd.api.types.is_numeric_dtype
IsNumericDtype(dtype) == dtype \in {"int64", "float64", "bool"}

\* pd.api.types.is_datetime64_dtype
IsDatetimeDtype(dtype) == dtype = "datetime64"

\* select_dtypes(include=[np.number]) leaves booleans out
IsNumberDtype(dtype) == dtype \in {"int64", "float64"}

(***************************************************************************)
(* Stage 1: column names (line 82).                                        *)
(***************************************************************************)
\* NormalizeName without the replacement of spaces.
NormalizeNameKeepsSpaces(h) == StrCell(StrLower(StrStrip(h.s)))

\* col.strip().lower().replace(' ', '_')
NormalizeName(h) == StrCell(StrReplace(StrLower(StrStrip(h.s)), " ", "_"))

\* col.strip() raises AttributeError on a header that is not text
HeadersAreText(t) == \A c \in 1..Len(t) : t[c].name.k = "str"

RenameColumns(t) ==
  [c \in 1..Len(t) |-> [t[c] EXCEPT !.name = NormalizeName(t[c].name)]]

(***************************************************************************)
(* Stage 2: DataFrame.drop_duplicates() (line 89).                         *)
(***************************************************************************)
\* The k-th smallest element of a set of row numbers.
KthIndex(I, k) == CHOOSE i \in I : Cardinality({j \in I : j < i}) = k - 1

\* The rows numbered in I, in row order.
TakeRows(t, I) ==
  [c \in 1..Len(t) |->
     [t[c] EXCEPT !.vals = [k \in 1..Cardinality(I) |-> t[c].vals[KthIndex(I, k)]]]]

\* FirstOccurrences with keep='last': rows that equal no later row.
LastOccurrences(t) ==
  {i \in 1..NumRows(t) : \A j \in (i+1)..NumRows(t) : Row(t, j) # Row(t, i)}

\* Rows that equal no earlier row (missing equals missing).
FirstOccurrences(t) ==
  {i \in 1..NumRows(t) : \A j \in 1..(i-1) : Row(t, j) # Row(t, i)}

drop_duplicates(t) == TakeRows(t, FirstOccurrences(t))

(***************************************************************************)
(* Stage 3: missing values (lines 95-117).                                 *)
(***************************************************************************)
\* Insertion of a rational into a sorted sequence of rationals.
RECURSIVE InsertSorted(_, _)
InsertSorted(s, x) ==
  IF s = <<>> THEN <<x>>
  ELSE IF RLeq(x, s[1]) THEN <<x>> \o s
  ELSE <<s[1]>> \o InsertSorted(Tail(s), x)

RECURSIVE SortRats(_)
SortRats(s) == IF s = <<>> THEN <<>> ELSE InsertSorted(SortRats(Tail(s)), s[1])

\* The non-missing numbers of a column, sorted.
SortedValues(vals) ==
  LET present == NonMissing(vals)
  IN  SortRats([i \in 1..Len(present) |-> present[i].n])

\* Series.median(): missing values skipped; missing when nothing is left.
median(vals) ==
  LET s == SortedValues(vals)
      n == Len(s)
  IN  IF n = 0 THEN NA
      ELSE IF n % 2 = 1 THEN NumCell(s[(n + 1) \div 2])
      ELSE NumCell(RMul(RAdd(s[n \div 2], s[n \div 2 + 1]), <<1, 2>>))

\* Series.fillna(value): filling with a missing value changes nothing.
fillna(vals, value) == [i \in 1..Len(vals) |-> IF IsNA(vals[i]) THEN value ELSE vals[i]]

\* Series.ffill()
ffill(vals) ==
  [i \in 1..Len(vals) |->
     IF NotNA(vals[i]) \/ \A j \in 1..(i-1) : IsNA(vals[j]) THEN vals[i]
     ELSE vals[CHOOSE j \in 1..(i-1) :
                 NotNA(vals[j]) /\ \A m \in (j+1)..(i-1) : IsNA(vals[m])]]

Occurrences(vals, c) == Cardinality({i \in 1..Len(vals) : vals[i] = c})

\* Series.mode(): the most frequent non-missing values, sorted.  The code
\* takes the first of them, or "Unknown" when there is none (line 115).
mode_val(vals) ==
  LET present == Range(NonMissing(vals))
      top == {c \in present :
                \A d \in present : Occurrences(vals, d) <= Occurrences(vals, c)}
  IN  IF present = {} THEN StrCell(<<"U","n","k","n","o","w","n">>)
      ELSE CHOOSE c \in top : \A d \in top \ {c} : StrLess(c.s, d.s)

DateText == <<"d","a","t","e">>

\* ImputeColumn with the date test tried before the numeric test.
ImputeColumnDateFirst(col) ==
  IF ~HasMissing(col.vals) THEN col
  ELSE IF Contains(StrLower(col.name.s), DateText) \/ IsDatetimeDtype(col.dtype)
       THEN [col EXCEPT !.vals = ffill(col.vals)]
  ELSE IF IsNumericDtype(col.dtype)
       THEN [col EXCEPT !.vals = fillna(col.vals, median(col.vals))]
  ELSE [col EXCEPT !.vals = fillna(col.vals, mode_val(col.vals)),
                   !.dtype = "object"]

ImputeColumn(col) ==
  IF ~HasMissing(col.vals) THEN col
  ELSE IF IsNumericDtype(col.dtype)
       THEN [col EXCEPT !.vals = fillna(col.vals, median(col.vals))]
  ELSE IF Contains(StrLower(col.name.s), DateText) \/ IsDatetimeDtype(col.dtype)
       THEN [col EXCEPT !.vals = ffill(col.vals)]
  ELSE [col EXCEPT !.vals = fillna(col.vals, mode_val(col.vals)),
                   !.dtype = "object"]

\* With two columns of one name df[column] is a frame, and the test
\* "missing_count > 0" of line 97 raises ValueError.
NamesAreUnique(t) == \A c, d \in 1..Len(t) : t[c].name = t[d].name => c = d

ImputeMissing(t) == [c \in 1..Len(t) |-> ImputeColumn(t[c])]

(***************************************************************************)
(* Stage 4: outliers (lines 121-140).                                      *)
(***************************************************************************)
\* Series.quantile(quarter / 4) with linear interpolation over the
\* non-missing values; missing when there is none.
quantile(vals, quarter) ==
  LET s    == SortedValues(vals)
      n    == Len(s)
      pos4 == quarter * (n - 1)
      i    == pos4 \div 4
      r    == pos4 % 4
  IN  IF n = 0 THEN NA
      ELSE IF r = 0 THEN NumCell(s[i + 1])
      ELSE NumCell(RAdd(s[i + 1], RMul(<<r, 4>>, RSub(s[i + 2], s[i + 1]))))

\* Q1 - 1.5 * IQR (line 128)
lower_bound(Q1, Q3) == RSub(Q1, RMul(<<3, 2>>, RSub(Q3, Q1)))

\* Q3 + 1.5 * IQR (line 129)
upper_bound(Q1, Q3) == RAdd(Q3, RMul(<<3, 2>>, RSub(Q3, Q1)))

\* clip that caps at the upper bound only.
clip_upper_only(vals, lower, upper) ==
  [i \in 1..Len(vals) |->
     IF IsNA(vals[i]) THEN vals[i]
     ELSE IF RLess(upper, vals[i].n) THEN NumCell(upper)
     ELSE vals[i]]

\* Series.clip(lower, upper): missing values stay missing
clip(vals, lower, upper) ==
  [i \in 1..Len(vals) |->
     IF IsNA(vals[i]) THEN vals[i]
     ELSE IF RLess(vals[i].n, lower) THEN NumCell(lower)
     ELSE IF RLess(upper, vals[i].n) THEN NumCell(upper)
     ELSE vals[i]]

CapColumn(col) ==
  IF ~IsNumberDtype(col.dtype) THEN col
  ELSE LET Q1 == quantile(col.vals, 1)
           Q3 == quantile(col.vals, 3)
       IN  IF IsNA(Q1) THEN col
           ELSE LET lower == lower_bound(Q1.n, Q3.n)
                    upper == upper_bound(Q1.n, Q3.n)
                    outliers == {i \in 1..Len(col.vals) :
                                   /\ NotNA(col.vals[i])
                                   /\ \/ RLess(col.vals[i].n, lower)
                                      \/ RLess(upper, col.vals[i].n)}
                IN  IF outliers = {} THEN col
                    ELSE [col EXCEPT !.vals = clip(col.vals, lower, upper),
                                     !.dtype = "float64"]

CapOutliers(t) == [c \in 1..Len(t) |-> CapColumn(t[c])]

(***************************************************************************)
(* Stage 5: dates (lines 144-152).                                         *)
(***************************************************************************)
DateHints == {<<"d","a","t","e">>, <<"t","i","m","e">>, <<"d","a","y">>,
              <<"m","o","n","t","h">>, <<"y","e","a","r">>}

\* pd.to_datetime raises TypeError on booleans; the code catches it and
\* leaves the column as it is.
DateColumn(col) ==
  IF \E hint \in DateHints : Contains(StrLower(col.name.s), hint)
  THEN IF col.dtype = "bool" THEN col
       ELSE [col EXCEPT
               !.vals = [i \in 1..Len(col.vals) |-> ToDatetimeCell(col.vals[i])],
               !.dtype = "datetime64"]
  ELSE col

StandardizeDates(t) == [c \in 1..Len(t) |-> DateColumn(t[c])]

(***************************************************************************)
(* Stage 6: text (lines 156-165).                                          *)
(***************************************************************************)
NameHints == {<<"n","a","m","e">>, <<"t","i","t","l","e">>,
              <<"c","a","t","e","g","o","r","y">>, <<"t","y","p","e">>}

TextColumn(col) ==
  IF col.dtype # "object" THEN col
  ELSE IF \E hint \in NameHints : Contains(StrLower(col.name.s), hint)
       THEN [col EXCEPT !.vals =
               [i \in 1..Len(col.vals) |-> StrCell(StrTitle(AsStr(col.vals[i])))]]
       ELSE [col EXCEPT !.vals =
               [i \in 1..Len(col.vals) |->
                  StrCell(StrLower(StrStrip(AsStr(col.vals[i]))))]]

StandardizeText(t) == [c \in 1..Len(t) |-> TextColumn(t[c])]

(***************************************************************************)
(* Stage 7: row completeness (line 168).                                   *)
(***************************************************************************)
\* df[name] = column: replaces the column of that name where it stands,
\* or appends a new one.
SetColumn(t, col) ==
  IF \E c \in 1..Len(t) : t[c].name = col.name
  THEN [c \in 1..Len(t) |-> IF t[c].name = col.name THEN col ELSE t[c]]
  ELSE Append(t, col)

CompletenessName ==
  StrCell(<<"r","o","w","_","c","o","m","p","l","e","t","e","n","e","s","s">>)

\* df.notna().mean(axis=1): over every column the frame has at that point
row_completeness(t) ==
  [i \in 1..NumRows(t) |->
     NumCell(Rat(Cardinality({c \in 1..Len(t) : NotNA(t[c].vals[i])}), Len(t)))]

AddCompleteness(t) ==
  SetColumn(t, [name |-> CompletenessName, dtype |-> "float64",
                vals |-> row_completeness(t)])

(***************************************************************************)
(* Stage 8: e-mail validation (lines 172-183).                             *)
(***************************************************************************)
EmailText == <<"e","m","a","i","l">>
ValidSuffix == <<"_","v","a","l","i","d">>

IsEmailName(name) == Contains(StrLower(name.s), EmailText)

ColumnNamed(t, name) == t[CHOOSE c \in 1..Len(t) : t[c].name = name]

\* df[column + "_valid"] = df[column].astype(str).str.match(email_pattern)
ValidateColumn(t, name) ==
  LET src == ColumnNamed(t, name).vals
  IN  SetColumn(t, [name  |-> StrCell(name.s \o ValidSuffix),
                    dtype |-> "bool",
                    vals  |-> [i \in 1..Len(src) |->
                                 BoolCell(MatchEmail(AsStr(src[i])))]])

\* The loop runs over the column names the frame had when it started, in
\* order, each step seeing the columns the earlier steps wrote.
RECURSIVE ValidateFrom(_, _)
ValidateFrom(t, names) ==
  IF names = <<>> THEN t
  ELSE IF IsEmailName(names[1])
       THEN ValidateFrom(ValidateColumn(t, names[1]), Tail(names))
       ELSE ValidateFrom(t, Tail(names))

ValidateEmails(t) == ValidateFrom(t, [c \in 1..Len(t) |-> t[c].name])

(***************************************************************************)
(* The sheet: columns of cells without dtypes.                             *)
(***************************************************************************)
NoFile == <<>>

\* pd.read_excel (line 70)
read_excel(f) ==
  [c \in 1..Len(f) |->
     [name |-> f[c].name, dtype |-> InferDtype(f[c].vals), vals |-> f[c].vals]]

\* DataFrame.to_excel(output_path, index=False) (line 187)
to_excel(t) == [c \in 1..Len(t) |-> [name |-> t[c].name, vals |-> t[c].vals]]

(***************************************************************************)
(* The input sheets of the model.                                          *)
(***************************************************************************)
HName == StrCell(<<"N","a","m","e"," ">>)
HNameLower == StrCell(<<"n","a","m","e">>)
HEmail == StrCell(<<"E","M","A","I","L">>)
HEmailOk == StrCell(<<"e","m","a","i","l","_","v","a","l","i","d">>)
HJoinDate == StrCell(<<"J","o","i","n"," ","D","a","t","e">>)
HCity == StrCell(<<"C","i","t","y">>)
HCreated == StrCell(<<"C","r","e","a","t","e","d">>)
HDateNum == StrCell(<<"D","a","t","e"," ","N","u","m">>)
HAmount == StrCell(<<"A","m","o","u","n","t">>)
HId == StrCell(<<"I","d">>)
HYear2020 == IntCell(2020)

AliceSpaced == StrCell(<<" ","a","l","i","c","e"," ">>)
Alice == StrCell(<<"a","l","i","c","e">>)
AliceMail == StrCell(<<"a","l","i","c","e","@","x",".","c","o","m">>)
BadMail == StrCell(<<"b","a","d","-","e","m","a","i","l">>)
Jan1Text == StrCell(<<"2","0","2","0","-","0","1","-","0","1">>)
NotADate == StrCell(<<"n","/","a">>)
Yes == StrCell(<<"y","e","s">>)
CityUpper == StrCell(<<"A">>)
CityLower == StrCell(<<"a">>)

\* The sheet of the end-to-end example.
ExampleFile ==
  << [name |-> HName,     vals |-> <<AliceSpaced, Alice, Alice>>],
     [name |-> HEmail,    vals |-> <<AliceMail, BadMail, AliceMail>>],
     [name |-> HJoinDate, vals |-> <<Jan1Text, NA, Jan1Text>>] >>

\* A header with the cells its column may hold.
Kind(h, cells) == [name |-> h, cells |-> cells]

KName == Kind(HName, {AliceSpaced, Alice, NA})
KNameLower == Kind(HNameLower, {AliceSpaced, Alice, NA})
KEmail == Kind(HEmail, {AliceMail, BadMail, NA})
KEmailOk == Kind(HEmailOk, {Yes, AliceMail, NA})
KJoinDate == Kind(HJoinDate, {Jan1Text, NotADate, NA})
KCity == Kind(HCity, {CityUpper, CityLower, NA})
KCreated == Kind(HCreated, {DtCell(2020, 1, 1), DtCell(2020, 1, 2), NA})
KDateNum == Kind(HDateNum, {IntCell(1), IntCell(4), NA})
KYear2020 == Kind(HYear2020, {IntCell(1), IntCell(2), NA})

\* The two-column layouts of the model.
Layouts ==
  { <<KName, KEmail>>, <<KEmail, KJoinDate>>, <<KCity, KJoinDate>>,
    <<KEmail, KEmailOk>>, <<KYear2020, KCity>>, <<KName, KNameLower>>,
    <<KCreated, KCity>>, <<KDateNum, KCity>> }

\* A sheet has no row that is blank in every column.
NoBlankRow(v1, v2) == \A i \in 1..Len(v1) : NotNA(v1[i]) \/ NotNA(v2[i])

TwoColumnFiles(layout, n) ==
  { << [name |-> layout[1].name, vals |-> vv[1]],
       [name |-> layout[2].name, vals |-> vv[2]] >> :
      vv \in { w \in [1..n -> layout[1].cells] \X [1..n -> layout[2].cells] :
                 NoBlankRow(w[1], w[2]) } }

AmountCells == {IntCell(1), IntCell(2), IntCell(9), NA}

\* A column of row numbers beside a column of amounts.
AmountFiles(n) ==
  { << [name |-> HId,     vals |-> [i \in 1..n |-> IntCell(i)]],
       [name |-> HAmount, vals |-> v] >> : v \in [1..n -> AmountCells] }

\* A single column of amounts, where rows repeat.
RepeatFiles(n) ==
  { << [name |-> HAmount, vals |-> v] >> : v \in [1..n -> AmountCells \ {NA}] }

InputFiles ==
  {ExampleFile}
  \cup UNION {TwoColumnFiles(layout, n) : layout \in Layouts, n \in 0..MaxRows}
  \cup UNION {AmountFiles(n) : n \in 1..MaxNumRows}
  \cup UNION {RepeatFiles(n) : n \in 1..MaxNumRows}

(***************************************************************************)
(* The logger (lines 9-34): handlers accumulate on the named logger.       *)
(***************************************************************************)
ConsoleHandler == <<"console", 0>>
FileHandler(n) == <<"file", n>>

\* setup_logger(): addHandler twice on logging.getLogger('data_quality')
setup_logger(hs, n) == hs \o <<ConsoleHandler, FileHandler(n)>>

(***************************************************************************)
(* The pipeline.                                                           *)
(***************************************************************************)
NoReport == [original_rows |-> 0, cleaned_rows |-> 0, duplicates_removed |-> 0,
             columns_processed |-> 0]

Init ==
  /\ pc = "idle"
  /\ file \in InputFiles
  /\ df = <<>>
  /\ before = <<>>
  /\ original_row_count = 0
  /\ dupes_removed = 0
  /\ handlers = <<>>
  /\ run = 0
  /\ outfile = NoFile
  /\ report = NoReport
  /\ ret = "none"

\* Lines 54-66: the call starts and sets the logger up.
Call ==
  /\ pc = "idle"
  /\ run < MaxRuns
  /\ run' = run + 1
  /\ handlers' = setup_logger(handlers, run + 1)
  /\ pc' = "started"
  /\ ret' = "pending"
  /\ df' = <<>>
  /\ before' = <<>>
  /\ original_row_count' = 0
  /\ dupes_removed' = 0
  /\ outfile' = NoFile
  /\ report' = NoReport
  /\ UNCHANGED file

\* Lines 69-78: the sheet is read.
LoadOk ==
  /\ pc = "started"
  /\ df' = read_excel(file)
  /\ original_row_count' = NumRows(read_excel(file))
  /\ pc' = "loaded"
  /\ UNCHANGED <<file, before, dupes_removed, handlers, run, outfile, report, ret>>

\* Lines 72-74: reading fails; None is returned.
LoadFail ==
  /\ pc = "started"
  /\ pc' = "aborted"
  /\ ret' = "None"
  /\ UNCHANGED <<file, df, before, original_row_count, dupes_removed, handlers,
                 run, outfile, report>>

\* Lines 81-85: column names; a header that is not text raises.
Rename ==
  /\ pc = "loaded"
  /\ before' = df
  /\ IF HeadersAreText(df)
     THEN /\ df' = RenameColumns(df)
          /\ pc' = "renamed"
          /\ ret' = ret
     ELSE /\ df' = df
          /\ pc' = "raised"
          /\ ret' = "exception"
  /\ UNCHANGED <<file, original_row_count, dupes_removed, handlers, run,
                 outfile, report>>

\* Lines 88-91
Dedup ==
  /\ pc = "renamed"
  /\ before' = df
  /\ df' = drop_duplicates(df)
  /\ dupes_removed' = original_row_count - NumRows(drop_duplicates(df))
  /\ pc' = "deduped"
  /\ UNCHANGED <<file, original_row_count, handlers, run, outfile, report, ret>>

\* Lines 94-117
Impute ==
  /\ pc = "deduped"
  /\ before' = df
  /\ IF NamesAreUnique(df)
     THEN /\ df' = ImputeMissing(df)
          /\ pc' = "imputed"
          /\ ret' = ret
     ELSE /\ df' = df
          /\ pc' = "raised"
          /\ ret' = "exception"
  /\ UNCHANGED <<file, original_row_count, dupes_removed, handlers, run,
                 outfile, report>>

\* Lines 120-140
Cap ==
  /\ pc = "imputed"
  /\ before' = df
  /\ df' = CapOutliers(df)
  /\ pc' = "capped"
  /\ UNCHANGED <<file, original_row_count, dupes_removed, handlers, run,
                 outfile, report, ret>>

\* Lines 143-152
Dates ==
  /\ pc = "capped"
  /\ before' = df
  /\ df' = StandardizeDates(df)
  /\ pc' = "dated"
  /\ UNCHANGED <<file, original_row_count, dupes_removed, handlers, run,
                 outfile, report, ret>>

\* Lines 155-165
Text ==
  /\ pc = "dated"
  /\ before' = df
  /\ df' = StandardizeText(df)
  /\ pc' = "texted"
  /\ UNCHANGED <<file, original_row_count, dupes_removed, handlers, run,
                 outfile, report, ret>>

\* Lines 167-169
Score ==
  /\ pc = "texted"
  /\ before' = df
  /\ df' = AddCompleteness(df)
  /\ pc' = "scored"
  /\ UNCHANGED <<file, original_row_count, dupes_removed, handlers, run,
                 outfile, report, ret>>

\* Lines 171-183
Validate ==
  /\ pc = "scored"
  /\ before' = df
  /\ df' = ValidateEmails(df)
  /\ pc' = "validated"
  /\ UNCHANGED <<file, original_row_count, dupes_removed, handlers, run,
                 outfile, report, ret>>

\* Lines 186-188: the cleaned table is written.
SaveOk ==
  /\ pc = "validated"
  /\ outfile' = to_excel(df)
  /\ pc' = "saved"
  /\ UNCHANGED <<file, df, before, original_row_count, dupes_removed, handlers,
                 run, report, ret>>

\* Lines 189-190: writing fails; the error is logged and the run goes on.
SaveFail ==
  /\ pc = "validated"
  /\ pc' = "saved"
  /\ UNCHANGED <<file, df, before, original_row_count, dupes_removed, handlers,
                 run, outfile, report, ret>>

\* Lines 192-209: the report is built and the table returned.
Return ==
  /\ pc = "saved"
  /\ report' = [original_rows      |-> original_row_count,
                cleaned_rows       |-> NumRows(df),
                duplicates_removed |-> dupes_removed,
                columns_processed  |-> Len(df)]
  /\ ret' = "table"
  /\ pc' = "returned"
  /\ UNCHANGED <<file, df, before, original_row_count, dupes_removed, handlers,
                 run, outfile>>

\* The caller invokes the function again in the same process, on the
\* cleaned sheet the last run wrote.
Again ==
  /\ pc = "returned"
  /\ outfile # NoFile
  /\ run < MaxRuns
  /\ file' = outfile
  /\ pc' = "idle"
  /\ UNCHANGED <<df, before, original_row_count, dupes_removed, handlers, run,
                 outfile, report, ret>>

Next ==
  \/ Call
  \/ LoadOk
  \/ LoadFail
  \/ Rename
  \/ Dedup
  \/ Impute
  \/ Cap
  \/ Dates
  \/ Text
  \/ Score
  \/ Validate
  \/ SaveOk
  \/ SaveFail
  \/ Return
  \/ Again

Spec == Init /\ [][Next]_vars

(***************************************************************************)
(* Properties.                                                             *)
(***************************************************************************)
NameOf(text) == StrCell(text)

HasColumn(t, name) == \E c \in 1..Len(t) : t[c].name = name

\* C1: right after the imputation stage every column has no missing value,
\* except a temporal column (name contains "date", or datetime-typed) whose
\* remaining missing cells are leading rows with nothing before them to
\* carry forward.
C1_NoMissingAfterImputation ==
  pc = "imputed" =>
    \A c \in 1..Len(df) :
       \/ ~HasMissing(df[c].vals)
       \/ /\ \/ Contains(StrLower(df[c].name.s), DateText)
             \/ IsDatetimeDtype(df[c].dtype)
          /\ \A i \in 1..Len(df[c].vals) :
                IsNA(df[c].vals[i]) => \A j \in 1..i : IsNA(before[c].vals[j])

\* C2: a run on the cleaned sheet written by the run before it removes no
\* duplicate row and meets no missing value at the imputation stage.
C2_SecondRunFindsNothing ==
  (run >= 2 /\ pc = "deduped") =>
    /\ dupes_removed = 0
    /\ \A c \in 1..Len(df) : ~HasMissing(df[c].vals)

\* C3: no exception leaves the call; it returns None exactly when loading
\* failed (then no stage ran and nothing was saved), and the cleaned table
\* otherwise, also when saving failed.
C3_NoExceptionEscapes ==
  /\ ret # "exception"
  /\ pc # "raised"
  /\ ret = "None" <=> pc = "aborted"
  /\ pc = "aborted" => (df = <<>> /\ outfile = NoFile)
  /\ pc = "returned" => ret = "table"

\* C4: after the capping stage every non-missing value of a numeric column
\* lies within [Q1 - 1.5 IQR, Q3 + 1.5 IQR] of the column before capping;
\* a value below the lower bound became the bound, one above the upper
\* bound became that bound, any other value is unchanged.
C4_CappedWithinBounds ==
  pc = "capped" =>
    \A c \in 1..Len(before) :
       (IsNumberDtype(before[c].dtype) /\ NotNA(quantile(before[c].vals, 1))) =>
         LET Q1    == quantile(before[c].vals, 1).n
             Q3    == quantile(before[c].vals, 3).n
             lower == RMul(<<1, 2>>, RSub(RMul(<<5, 1>>, Q1), RMul(<<3, 1>>, Q3)))
             upper == RMul(<<1, 2>>, RSub(RMul(<<5, 1>>, Q3), RMul(<<3, 1>>, Q1)))
         IN  /\ Len(df[c].vals) = Len(before[c].vals)
             /\ \A i \in 1..Len(before[c].vals) :
                  LET old == before[c].vals[i]
                      new == df[c].vals[i]
                  IN  IF IsNA(old) THEN IsNA(new)
                      ELSE /\ new.k = "num"
                           /\ RLeq(lower, new.n) /\ RLeq(new.n, upper)
                           /\ RLess(old.n, lower) => new.n = lower
                           /\ RLess(upper, old.n) => new.n = upper
                           /\ (RLeq(lower, old.n) /\ RLeq(old.n, upper)) => new = old

\* A numeric column had a value raised to the lower bound, a value lowered
\* to the upper bound and a value left as it was.
C4_Witness ==
  /\ pc = "capped"
  /\ \E c \in 1..Len(df) :
        /\ IsNumberDtype(before[c].dtype)
        /\ \E i, j, m \in 1..Len(df[c].vals) :
              /\ NotNA(before[c].vals[i]) /\ NotNA(before[c].vals[j])
              /\ NotNA(before[c].vals[m])
              /\ RLess(before[c].vals[i].n, df[c].vals[i].n)
              /\ RLess(df[c].vals[j].n, before[c].vals[j].n)
              /\ before[c].vals[m] = df[c].vals[m]

\* The first row number at which row r stands in the rows R.
FirstAt(R, r) == CHOOSE i \in 1..Len(R) : R[i] = r /\ \A j \in 1..(i-1) : R[j] # r

\* C5: deduplication keeps of every set of equal rows exactly the first
\* occurrence, in the original order; no later stage changes the number of
\* rows; the reported duplicates_removed is original_rows - cleaned_rows.
C5_DedupKeepsFirst ==
  /\ pc = "deduped" =>
       LET R == Rows(before)
           D == Rows(df)
       IN  /\ Range(D) = Range(R)
           /\ \A k, l \in 1..Len(D) :
                 k < l => (D[k] # D[l] /\ FirstAt(R, D[k]) < FirstAt(R, D[l]))
  /\ pc \in {"imputed", "capped", "dated", "texted", "scored", "validated"}
       => NumRows(df) = NumRows(before)
  /\ pc = "returned" =>
       /\ report.cleaned_rows = NumRows(df)
       /\ report.duplicates_removed = report.original_rows - report.cleaned_rows

\* A run that removed a duplicate and kept at least two rows has returned.
C5_Witness ==
  /\ pc = "returned"
  /\ report.duplicates_removed > 0
  /\ report.cleaned_rows >= 2

\* C6: for every column whose name contains "email" the validation stage
\* adds a column <name>_valid that is boolean in every row, has as many rows
\* as the source column, and is False wherever the text of the source value
\* has no "@"; the source column's values are unchanged by the stage.
C6_EmailValidation ==
  pc = "validated" =>
    \A c \in 1..Len(before) :
       IsEmailName(before[c].name) =>
         LET src   == before[c]
             vname == NameOf(src.name.s \o ValidSuffix)
         IN  /\ HasColumn(df, vname)
             /\ LET valid == ColumnNamed(df, vname).vals
                IN  /\ Len(valid) = Len(src.vals)
                    /\ \A i \in 1..Len(valid) :
                          /\ valid[i].k = "bool"
                          /\ ~Contains(AsStr(src.vals[i]), <<"@">>)
                               => valid[i] = BoolCell(FALSE)
             /\ ColumnNamed(df, src.name).vals = src.vals

\* C7: row_completeness of a row is k / n, n the number of columns other
\* than row_completeness present when the score is computed and k the
\* number of those holding a non-missing value in the row.
C7_CompletenessIsKOverN ==
  pc = "scored" =>
    LET others == {c \in 1..Len(before) : before[c].name # CompletenessName}
        score  == ColumnNamed(df, CompletenessName).vals
    IN  \A i \in 1..NumRows(before) :
           score[i] = NumCell(Rat(Cardinality({c \in others : NotNA(before[c].vals[i])}),
                                  Cardinality(others)))

\* C8: the example sheet yields the columns name, email, join_date, loses no
\* row as a duplicate (three rows remain), gets email_valid = True, False,
\* True, and has the missing join_date of row 2 filled with 2020-01-01.
C8_Example ==
  (run = 1 /\ file = ExampleFile /\ pc = "returned") =>
    /\ Len(df) >= 3
    /\ df[1].name = NameOf(<<"n","a","m","e">>)
    /\ df[2].name = NameOf(<<"e","m","a","i","l">>)
    /\ df[3].name = NameOf(<<"j","o","i","n","_","d","a","t","e">>)
    /\ report.duplicates_removed = 0
    /\ NumRows(df) = 3
    /\ HasColumn(df, NameOf(<<"e","m","a","i","l","_","v","a","l","i","d">>))
    /\ ColumnNamed(df, NameOf(<<"e","m","a","i","l","_","v","a","l","i","d">>)).vals
         = <<BoolCell(TRUE), BoolCell(FALSE), BoolCell(TRUE)>>
    /\ df[3].vals[2] = DtCell(2020, 1, 1)

\* The first run on the example sheet has returned.
C8_Witness == run = 1 /\ file = ExampleFile /\ pc = "returned" /\ ret = "table"

\* C9: after any number of calls the logger has exactly two handlers, the
\* console and the log file of the current run.
C9_TwoHandlers ==
  run >= 1 => handlers = <<ConsoleHandler, FileHandler(run)>>

\* The element of the sorted non-missing values at 0-based rank r, found by
\* counting.
AtRank(vals, r) ==
  LET p == NonMissing(vals)
  IN  (CHOOSE i \in 1..Len(p) :
         /\ Cardinality({j \in 1..Len(p) : RLess(p[j].n, p[i].n)}) <= r
         /\ r < Cardinality({j \in 1..Len(p) : RLeq(p[j].n, p[i].n)}))

\* C10: a column with a missing value is filled by exactly one strategy:
\* numeric by value type -> the median of its non-missing values, even when
\* its name contains "date"; otherwise name contains "date" or datetime-typed
\* -> the nearest preceding non-missing value; otherwise -> the mode, or
\* "Unknown" when nothing is present.  A column without missing values is
\* unchanged.
C10_FillStrategy ==
  pc = "imputed" =>
    \A c \in 1..Len(before) :
       LET old == before[c].vals
           new == df[c].vals
           p   == NonMissing(old)
           n   == Len(p)
       IN  /\ Len(new) = Len(old)
           /\ df[c].name = before[c].name
           /\ ~HasMissing(old) => df[c] = before[c]
           /\ \A i \in 1..Len(old) : NotNA(old[i]) => new[i] = old[i]
           /\ \A i \in 1..Len(old) : IsNA(old[i]) =>
                IF before[c].dtype \in {"int64", "float64", "bool"}
                THEN IF n = 0 THEN IsNA(new[i])
                     ELSE new[i] = NumCell(RMul(<<1, 2>>,
                                      RAdd(p[AtRank(old, (n - 1) \div 2)].n,
                                           p[AtRank(old, n \div 2)].n)))
                ELSE IF \/ Contains(before[c].name.s, DateText)
                        \/ before[c].dtype = "datetime64"
                THEN IF \A j \in 1..(i-1) : IsNA(old[j]) THEN IsNA(new[i])
                     ELSE \E j \in 1..(i-1) :
                             /\ NotNA(old[j])
                             /\ \A m \in (j+1)..(i-1) : IsNA(old[m])
                             /\ new[i] = old[j]
                ELSE IF n = 0 THEN new[i] = StrCell(<<"U","n","k","n","o","w","n">>)
                     ELSE /\ new[i] \in Range(p)
                          /\ \A d \in Range(p) :
                                Occurrences(old, d) <= Occurrences(old, new[i])

\* A numeric column whose name contains "date" had a leading missing value,
\* which a forward fill would have left missing, and it is filled.
C10_Witness ==
  /\ pc = "imputed"
  /\ \E c \in 1..Len(before) :
        /\ before[c].dtype = "float64"
        /\ Contains(before[c].name.s, DateText)
        /\ Len(before[c].vals) >= 1
        /\ IsNA(before[c].vals[1])
        /\ NotNA(df[c].vals[1])

====
